---- MODULE Spec2Model ----
(***************************************************************************)
(* Model of src/dashboard.py: the Streamlit script that loads             *)
(* dashboard_data.csv, fetches live prices per symbol, reconciles and     *)
(* derives P&L, and renders metrics and risk alerts.                      *)
(*                                                                         *)
(* Numbers.  Prices and quantities are integers.  A float cell that may   *)
(* be NaN or infinite is a record [k, v]: k = "num" with value v,         *)
(* k = "nan", k = "inf" with v the sign, k = "none" for Python's None.    *)
(* pnl_pct is kept in hundredths of a percent, which is exactly what      *)
(* .round(2) leaves.  A threshold x * 1.02 is compared as 100*y <= 102*x. *)
(*                                                                         *)
(* Library semantics.  @st.cache_data(ttl=...) is modelled as Streamlit   *)
(* implements it: one entry per argument key, an entry is served while    *)
(* now < storedAt + ttl, and a miss takes the key's compute lock,         *)
(* looks the entry up again, and only then runs the function body and     *)
(* stores its return value.                                               *)
(***************************************************************************)
EXTENDS Integers, Sequences, FiniteSets, TLC

VARIABLES now, loadCache, fetchCache, loadLock, fetchLock, pc, raw, syms,
          idx, prices, outcomes, live, page, hist, fetchAllCount,
          dpc, dFile, dQuotes, dDf, dOut

vars == <<now, loadCache, fetchCache, loadLock, fetchLock, pc, raw, syms,
          idx, prices, outcomes, live, page, hist, fetchAllCount,
          dpc, dFile, dQuotes, dDf, dOut>>

mainVars == <<now, loadCache, fetchCache, loadLock, fetchLock, pc, raw, syms,
              idx, prices, outcomes, live, page, hist, fetchAllCount>>

pureVars == <<dpc, dFile, dQuotes, dDf, dOut>>

----------------------------------------------------------------------------
(* Program constants *)

REFRESH_SECONDS == 30

\* the 2% bands of the risk alerts, as percentages
SL_BAND_PCT == 102
TARGET_BAND_PCT == 98

----------------------------------------------------------------------------
(* Bounds of the model *)

MaxTicks == 3
MaxPrice == 3
MaxQty == 1
RiskBase == 200
MaxBand == 10

----------------------------------------------------------------------------
(* Float cells *)

Num(v) == [k |-> "num", v |-> v]
NaN == [k |-> "nan", v |-> 0]
Inf(sign) == [k |-> "inf", v |-> sign]
NoneV == [k |-> "none", v |-> 0]

IsNum(c) == c.k = "num"
\* pandas treats None and NaN alike as missing
IsNull(c) == c.k \in {"nan", "none"}

\* round-half-even of n/d, d # 0 (numpy's round)
RoundDiv(n, d) ==
    LET nn == IF d > 0 THEN n ELSE -n
        dd == IF d > 0 THEN d ELSE -d
        q == nn \div dd
        r == nn % dd
    IN  IF 2 * r < dd THEN q
        ELSE IF 2 * r > dd THEN q + 1
        ELSE IF q % 2 = 0 THEN q ELSE q + 1

RECURSIVE SumSeq(_)
SumSeq(s) == IF s = <<>> THEN 0 ELSE Head(s) + SumSeq(Tail(s))

RECURSIVE Unique(_)
\* df['stock'].unique().tolist(): distinct values in first-seen order
Unique(s) ==
    IF s = <<>> THEN <<>>
    ELSE LET init == Unique(SubSeq(s, 1, Len(s) - 1))
             x == s[Len(s)]
         IN  IF \E i \in 1..Len(init) : init[i] = x THEN init ELSE Append(init, x)

SeqRange(s) == {s[i] : i \in 1..Len(s)}

----------------------------------------------------------------------------
(* The input file and load_data's body *)

LoadCols == {"stock", "current_price", "entry_price", "quantity"}
RenderCols == {"status", "confidence", "stop_loss", "target_price"}
AllCols == LoadCols \cup RenderCols
DerivedCols == {"current_price_live", "pnl_rs", "pnl_pct"}

\* what the except branch of load_data returns: pd.DataFrame() after st.error
ErrorFrame == [diag |-> TRUE, cols |-> {}, rows |-> <<>>]

Empty(frame) == frame.rows = <<>>

\* pd.read_csv raises (line 50), or the frame has no 'stock' column (line 53)
ReadFails(file) == file.kind # "table" \/ "stock" \notin file.cols

Symbols(file) == Unique([i \in 1..Len(file.rows) |-> file.rows[i].stock])

\* line 57: df['stock'].map(live_prices); a None value or a missing key is NaN
MapLive(stock, quotes) ==
    IF stock \in DOMAIN quotes /\ IsNum(quotes[stock]) THEN quotes[stock] ELSE NaN

\* line 58: df['current_price_live'].fillna(df['current_price'])
Fillna(livecell, csvcell) == IF IsNull(livecell) THEN csvcell ELSE livecell

\* line 61: (current_price - entry_price) * quantity
PnlRs(cur, entry, qty) ==
    IF IsNum(cur) THEN Num((cur.v - entry) * qty) ELSE NaN

\* line 62: ((current_price - entry_price) / entry_price * 100).round(2)
\* float division: x/0 is +-inf, 0/0 is NaN, nothing raises
PnlPct(cur, entry) ==
    IF ~IsNum(cur) THEN NaN
    ELSE IF entry = 0
         THEN IF cur.v > 0 THEN Inf(1) ELSE IF cur.v < 0 THEN Inf(-1) ELSE NaN
         ELSE Num(RoundDiv((cur.v - entry) * 10000, entry))

DeriveRow(r, quotes) ==
    LET lv == MapLive(r.stock, quotes)
        cur == Fillna(lv, r.current_price)
    IN  [stock |-> r.stock, status |-> r.status, entry_price |-> r.entry_price,
         quantity |-> r.quantity, stop_loss |-> r.stop_loss,
         target_price |-> r.target_price, confidence |-> r.confidence,
         current_price_live |-> lv, current_price |-> cur,
         pnl_rs |-> PnlRs(cur, r.entry_price, r.quantity),
         pnl_pct |-> PnlPct(cur, r.entry_price)]

\* lines 56-67: the part of load_data after fetch_live_prices returned
FinishLoad(file, quotes) ==
    IF LoadCols \subseteq file.cols
    THEN [diag |-> FALSE, cols |-> file.cols \cup DerivedCols,
          rows |-> [i \in 1..Len(file.rows) |-> DeriveRow(file.rows[i], quotes)]]
    ELSE ErrorFrame

----------------------------------------------------------------------------
(* The page: key metrics and risk alerts *)

IsHold(r) == r.status = "HOLD"

\* NearSl without the status filter
NearSlAnyStatus(r) ==
    IsNum(r.current_price) /\ 100 * r.current_price.v <= SL_BAND_PCT * r.stop_loss

\* lines 200-203
NearSl(r) ==
    /\ IsNum(r.current_price)
    /\ 100 * r.current_price.v <= SL_BAND_PCT * r.stop_loss
    /\ r.status = "HOLD"

\* lines 213-216
AtTarget(r) ==
    /\ IsNum(r.current_price)
    /\ 100 * r.current_price.v >= TARGET_BAND_PCT * r.target_price
    /\ r.status = "HOLD"

\* Series.sum() skips NaN
CellOrZero(c) == IF IsNum(c) THEN c.v ELSE 0

TotalPnl(rows) == SumSeq([i \in 1..Len(rows) |-> CellOrZero(rows[i].pnl_rs)])
CostBasis(rows) == SumSeq([i \in 1..Len(rows) |-> rows[i].entry_price * rows[i].quantity])

\* line 100, as the fraction <<numerator, denominator>> of the percentage
TotalPnlPct(rows) ==
    IF CostBasis(rows) > 0 THEN <<100 * TotalPnl(rows), CostBasis(rows)>> ELSE <<0, 1>>

IsLoss(r) == IsNum(r.pnl_rs) /\ r.pnl_rs.v < 0

\* lines 87-225 on a frame
Render(frame) ==
    IF Empty(frame)
    THEN [kind |-> "empty", diag |-> frame.diag]
    ELSE IF ~(RenderCols \subseteq frame.cols)
    THEN [kind |-> "exception", diag |-> frame.diag]
    ELSE [kind |-> "page", diag |-> frame.diag,
          open_trades |-> Cardinality({i \in 1..Len(frame.rows) : IsHold(frame.rows[i])}),
          total_pnl |-> TotalPnl(frame.rows),
          total_pnl_pct |-> TotalPnlPct(frame.rows),
          avg_conf |-> <<SumSeq([i \in 1..Len(frame.rows) |-> frame.rows[i].confidence]),
                         Len(frame.rows)>>,
          near_sl |-> {i \in 1..Len(frame.rows) : NearSl(frame.rows[i])},
          at_target |-> {i \in 1..Len(frame.rows) : AtTarget(frame.rows[i])},
          total_risk |-> Cardinality({i \in 1..Len(frame.rows) : IsLoss(frame.rows[i])})]

----------------------------------------------------------------------------
(* The data pipeline on its own: load_data's reconciliation and derivation *)
(* and the page's computations, applied to every frame and quote mapping   *)
(* drawn from bounded sets.                                                *)

Statuses == {"BUY", "HOLD", "EXIT"}
Qtys == (-MaxQty..MaxQty) \ {0}
CsvPriceCells == {NaN} \cup {Num(p) : p \in 1..MaxPrice}
QuoteCells == {NoneV} \cup {Num(p) : p \in 1..MaxPrice}

Row(stock, status, entry, cur, qty, stop, target) ==
    [stock |-> stock, status |-> status, entry_price |-> entry, current_price |-> cur,
     quantity |-> qty, stop_loss |-> stop, target_price |-> target, confidence |-> 50]

Table(rows) == [kind |-> "table", cols |-> AllCols, rows |-> rows]

\* frames that vary what P&L depends on
PnlRows1 == {Row("A", "HOLD", e, c, q, 1, MaxPrice) :
                e \in -1..MaxPrice, c \in CsvPriceCells, q \in Qtys}
PnlRows2 == {Row("B", "HOLD", e, c, q, 1, MaxPrice) :
                e \in -1..MaxPrice, c \in {NaN, Num(1)}, q \in Qtys}
\* frames that vary what the risk alerts depend on
RiskRows == {Row("A", st, RiskBase, c, 1, RiskBase, t) :
                st \in Statuses,
                c \in {NaN} \cup {Num(p) : p \in (RiskBase - MaxBand)..(RiskBase + MaxBand)},
                t \in {RiskBase, RiskBase + MaxBand}}

PureFiles ==
    {Table(<<r>>) : r \in PnlRows1 \cup RiskRows}
    \cup {Table(<<r1, r2>>) : r1 \in PnlRows1, r2 \in PnlRows2}

NoFrame == [diag |-> FALSE, cols |-> {}, rows |-> <<>>]
NoOut == [kind |-> "none", diag |-> FALSE]

PureInit ==
    /\ dpc = "start"
    /\ dFile \in PureFiles
    /\ dQuotes \in [SeqRange(Symbols(dFile)) -> QuoteCells]
    /\ dDf = NoFrame
    /\ dOut = NoOut

\* load_data lines 56-64 on the frame read and the prices fetched
PureLoad ==
    /\ dpc = "start"
    /\ dDf' = FinishLoad(dFile, dQuotes)
    /\ dpc' = "loaded"
    /\ UNCHANGED <<dFile, dQuotes, dOut>>
    /\ UNCHANGED mainVars

\* the page, lines 87-225
PureRender ==
    /\ dpc = "loaded"
    /\ dOut' = Render(dDf)
    /\ dpc' = "rendered"
    /\ UNCHANGED <<dFile, dQuotes, dDf>>
    /\ UNCHANGED mainVars

----------------------------------------------------------------------------
(* The running app: sessions rerun the script, the two cached functions    *)
(* share their caches across sessions, and time passes.                    *)
(*                                                                         *)
(* Variables: now is the clock; loadCache and fetchCache[key] are the      *)
(* entries of the two st.cache_data caches, loadLock and fetchLock[key]    *)
(* their compute locks; pc[s] is where session s is in the script; raw,    *)
(* syms, idx, prices, live are the locals of the two calls.  History:      *)
(* outcomes[s] is what the provider did for each symbol of the running     *)
(* loop, page the last page rendered (for which session, from the frame    *)
(* of which file), hist the last calls of each cached function,            *)
(* fetchAllCount[key] how often the body of fetch_live_prices ran for key. *)

Sessions == {1, 2}
NoOwner == 0
TickSeconds == REFRESH_SECONDS \div 2

RowA == Row("A", "HOLD", 2, Num(3), 1, 1, 3)
RowB == Row("B", "BUY", 3, NaN, -1, 2, 3)
RowA2 == Row("A", "EXIT", 1, Num(1), 1, 1, 3)

\* kind "missing" stands for every way pd.read_csv raises (no file, no columns,
\* a parse error)
Missing == [kind |-> "missing", cols |-> {}, rows |-> <<>>]
NoQuantity == [kind |-> "table", cols |-> AllCols \ {"quantity"}, rows |-> <<RowA>>]
NoStatus == [kind |-> "table", cols |-> AllCols \ {"status"}, rows |-> <<RowA>>]
HeaderOnly == Table(<<>>)
OneSymbol == Table(<<RowA>>)
TwoSymbols == Table(<<RowA, RowB, RowA2>>)

CsvFiles == {Missing, NoQuantity, NoStatus, HeaderOnly, OneSymbol, TwoSymbols}

Keys == {Symbols(f) : f \in {g \in CsvFiles : ~ReadFails(g)}}
Fns == {"load_data", "fetch_live_prices"}

\* what yf.Ticker(symbol).history(period='1d') (lines 31-32) can do for one
\* symbol once it returns: a series with a last Close, an empty series, or an
\* exception.  The script passes no timeout and sets no time limit of its own;
\* the model takes the call to return.
ProviderOutcomes ==
    {[kind |-> "price", p |-> p] : p \in {MaxPrice}}
    \cup {[kind |-> "empty", p |-> 0], [kind |-> "exception", p |-> 0]}

NoMapping == <<>>
NoEntry == [has |-> FALSE, at |-> 0]

\* the ttl comparison the wrong way round
FreshReversed(entry, t) == entry.has /\ t >= entry.at + REFRESH_SECONDS

\* an entry that never expires
NeverExpires(entry, t) == TRUE

\* the ttl of an entry has not elapsed at t
Unexpired(entry, t) == t < entry.at + REFRESH_SECONDS

\* st.cache_data(ttl=REFRESH_SECONDS): an entry is served until its ttl has elapsed
Fresh(entry, t) == entry.has /\ Unexpired(entry, t)

\* a lock anyone can take at any time
CanAcquireAlways(owner) == TRUE

\* the compute lock of a cached function's key
CanAcquire(owner) == owner = NoOwner

\* an exception that is not caught per symbol
TryFetchNoIsolation(pr, symbol, o) ==
    IF o.kind = "price" THEN [prices |-> (symbol :> Num(o.p)) @@ pr, raised |-> FALSE]
    ELSE IF o.kind = "empty" THEN [prices |-> (symbol :> NoneV) @@ pr, raised |-> FALSE]
    ELSE [prices |-> pr, raised |-> TRUE]

\* lines 30-38 for one symbol: the price, or None when the series is empty or
\* anything was raised; raised tells whether an exception left the inner try
TryFetch(pr, symbol, o) ==
    IF o.kind = "price" THEN [prices |-> (symbol :> Num(o.p)) @@ pr, raised |-> FALSE]
    ELSE IF o.kind = "empty" THEN [prices |-> (symbol :> NoneV) @@ pr, raised |-> FALSE]
    ELSE [prices |-> (symbol :> NoneV) @@ pr, raised |-> FALSE]

\* one finished call of a cached function, as the caller saw it: when it
\* returned, whether the body ran, when the value it returned was stored, the
\* value, and how often fetch_live_prices' body had run for the key by then
NoPage == [session |-> 0, file |-> Missing, out |-> NoOut]
NoCall == [some |-> FALSE, t |-> 0, computed |-> FALSE, win |-> 0, fetches |-> 0]
Call(computed, win, val, fetches) ==
    [some |-> TRUE, t |-> now, computed |-> computed, win |-> win, val |-> val,
     fetches |-> fetches]

\* hist[fn, key] keeps the last call (cur) and the last call before it whose
\* body ran (comp)
Remember(h, call) ==
    [comp |-> IF h.cur.some /\ h.cur.computed THEN h.cur ELSE h.comp, cur |-> call]

Init ==
    /\ now = 0
    /\ loadCache = NoEntry
    /\ fetchCache = [k \in Keys |-> NoEntry]
    /\ loadLock = NoOwner
    /\ fetchLock = [k \in Keys |-> NoOwner]
    /\ pc = [s \in Sessions |-> "idle"]
    /\ raw = [s \in Sessions |-> Missing]
    /\ syms = [s \in Sessions |-> <<>>]
    /\ idx = [s \in Sessions |-> 1]
    /\ prices = [s \in Sessions |-> NoMapping]
    /\ outcomes = [s \in Sessions |-> <<>>]
    /\ live = [s \in Sessions |-> NoMapping]
    /\ page = NoPage
    /\ hist = [c \in Fns \X Keys |-> [comp |-> NoCall, cur |-> NoCall]]
    /\ fetchAllCount = [k \in Keys |-> 0]
    /\ dpc = "off" /\ dFile = Missing /\ dQuotes = NoMapping
    /\ dDf = NoFrame /\ dOut = NoOut

\* load_data() returned frame val, computed from file and stored at win; the
\* rest of the script (lines 74-236) renders it
LoadReturned(s, file, val, computed, win) ==
    /\ page' = [session |-> s, file |-> file, out |-> Render(val)]
    /\ hist' = IF ReadFails(file) THEN hist
               ELSE [hist EXCEPT ![<<"load_data", Symbols(file)>>] =
                        Remember(@, Call(computed, win, val,
                                         fetchAllCount[Symbols(file)]))]
    /\ pc' = [pc EXCEPT ![s] = "idle"]

\* load_data's body returned val, computed from file: the value is stored
LoadStore(s, file, val) ==
    /\ loadCache' = [has |-> TRUE, at |-> now, val |-> val, src |-> file]
    /\ loadLock' = NoOwner
    /\ LoadReturned(s, file, val, TRUE, now)

\* line 69: a rerun of the script calls load_data(); the cache is looked up
RunScript(s) ==
    /\ pc[s] = "idle"
    /\ IF Fresh(loadCache, now)
       THEN LoadReturned(s, loadCache.src, loadCache.val, FALSE, loadCache.at)
       ELSE /\ pc' = [pc EXCEPT ![s] = "loadWait"]
            /\ UNCHANGED <<page, hist>>
    /\ UNCHANGED <<now, loadCache, fetchCache, loadLock, fetchLock, raw, syms, idx,
                   prices, outcomes, live, fetchAllCount>>
    /\ UNCHANGED pureVars

\* line 47: the miss takes load_data's compute lock and looks up again
LoadAcquire(s) ==
    /\ pc[s] = "loadWait"
    /\ CanAcquire(loadLock)
    /\ IF Fresh(loadCache, now)
       THEN /\ LoadReturned(s, loadCache.src, loadCache.val, FALSE, loadCache.at)
            /\ UNCHANGED loadLock
       ELSE /\ loadLock' = s
            /\ pc' = [pc EXCEPT ![s] = "readCsv"]
            /\ UNCHANGED <<page, hist>>
    /\ UNCHANGED <<now, loadCache, fetchCache, fetchLock, raw, syms, idx, prices,
                   outcomes, live, fetchAllCount>>
    /\ UNCHANGED pureVars

\* a call of fetch_live_prices(key) returned val
FetchReturned(s, key, val, computed, win) ==
    /\ live' = [live EXCEPT ![s] = val]
    /\ hist' = [hist EXCEPT ![<<"fetch_live_prices", key>>] =
                   Remember(@, Call(computed, win, val, fetchAllCount[key]))]
    /\ pc' = [pc EXCEPT ![s] = "finishLoad"]

\* lines 50-54 with the file holding f: read it, take the symbols, call
\* fetch_live_prices(symbols), whose cache is looked up; a failure goes to the
\* except branch (lines 65-67)
ReadCsvFile(s, f) ==
    IF ReadFails(f)
    THEN /\ LoadStore(s, f, ErrorFrame)
         /\ UNCHANGED <<raw, syms, live>>
    ELSE /\ raw' = [raw EXCEPT ![s] = f]
         /\ syms' = [syms EXCEPT ![s] = Symbols(f)]
         /\ IF Fresh(fetchCache[Symbols(f)], now)
            THEN FetchReturned(s, Symbols(f), fetchCache[Symbols(f)].val, FALSE,
                               fetchCache[Symbols(f)].at)
            ELSE /\ pc' = [pc EXCEPT ![s] = "fetchWait"]
                 /\ UNCHANGED <<live, hist>>
         /\ UNCHANGED <<loadCache, loadLock, page>>

\* dashboard_data.csv is an input: it holds any of CsvFiles when it is read
ReadCsv(s) ==
    /\ pc[s] = "readCsv"
    /\ \E f \in CsvFiles : ReadCsvFile(s, f)
    /\ UNCHANGED <<now, fetchCache, fetchLock, idx, prices, outcomes, fetchAllCount>>
    /\ UNCHANGED pureVars

\* line 21: the miss takes the key's compute lock and looks up again; on a second
\* miss the body starts (line 28)
FetchAcquire(s) ==
    /\ pc[s] = "fetchWait"
    /\ CanAcquire(fetchLock[syms[s]])
    /\ IF Fresh(fetchCache[syms[s]], now)
       THEN /\ FetchReturned(s, syms[s], fetchCache[syms[s]].val, FALSE,
                             fetchCache[syms[s]].at)
            /\ UNCHANGED <<fetchLock, idx, prices, outcomes, fetchAllCount>>
       ELSE /\ fetchLock' = [fetchLock EXCEPT ![syms[s]] = s]
            /\ prices' = [prices EXCEPT ![s] = NoMapping]
            /\ outcomes' = [outcomes EXCEPT ![s] = <<>>]
            /\ idx' = [idx EXCEPT ![s] = 1]
            /\ fetchAllCount' = [fetchAllCount EXCEPT ![syms[s]] = @ + 1]
            /\ pc' = [pc EXCEPT ![s] = "fetchLoop"]
            /\ UNCHANGED <<live, hist>>
    /\ UNCHANGED <<now, loadCache, fetchCache, loadLock, raw, syms, page>>
    /\ UNCHANGED pureVars

\* fetch_live_prices' body returned val: the value is stored
FetchStore(s, val) ==
    /\ fetchCache' = [fetchCache EXCEPT ![syms[s]] = [has |-> TRUE, at |-> now, val |-> val]]
    /\ fetchLock' = [fetchLock EXCEPT ![syms[s]] = NoOwner]
    /\ FetchReturned(s, syms[s], val, TRUE, now)

\* lines 29-38: one iteration of the loop; an exception that left the inner try
\* would reach the outer except (lines 40-42), which returns {}
FetchSymbol(s) ==
    /\ pc[s] = "fetchLoop"
    /\ idx[s] <= Len(syms[s])
    /\ \E o \in ProviderOutcomes :
          LET r == TryFetch(prices[s], syms[s][idx[s]], o)
          IN  /\ outcomes' = [outcomes EXCEPT ![s] = Append(@, o)]
              /\ IF r.raised
                 THEN /\ FetchStore(s, NoMapping)
                      /\ UNCHANGED <<prices, idx>>
                 ELSE /\ prices' = [prices EXCEPT ![s] = r.prices]
                      /\ idx' = [idx EXCEPT ![s] = @ + 1]
                      /\ UNCHANGED <<fetchCache, fetchLock, live, hist, pc>>
    /\ UNCHANGED <<now, loadCache, loadLock, raw, syms, page, fetchAllCount>>
    /\ UNCHANGED pureVars

\* line 39: return prices
FetchReturn(s) ==
    /\ pc[s] = "fetchLoop"
    /\ idx[s] > Len(syms[s])
    /\ FetchStore(s, prices[s])
    /\ UNCHANGED <<now, loadCache, loadLock, raw, syms, idx, prices, outcomes, page,
                   fetchAllCount>>
    /\ UNCHANGED pureVars

\* lines 56-67: reconcile, derive, return df (or the except branch); the locals
\* of the two calls are gone
FinishLoadData(s) ==
    /\ pc[s] = "finishLoad"
    /\ LoadStore(s, raw[s], FinishLoad(raw[s], live[s]))
    /\ raw' = [raw EXCEPT ![s] = Missing]
    /\ syms' = [syms EXCEPT ![s] = <<>>]
    /\ idx' = [idx EXCEPT ![s] = 1]
    /\ prices' = [prices EXCEPT ![s] = NoMapping]
    /\ outcomes' = [outcomes EXCEPT ![s] = <<>>]
    /\ live' = [live EXCEPT ![s] = NoMapping]
    /\ UNCHANGED <<now, fetchCache, fetchLock, fetchAllCount>>
    /\ UNCHANGED pureVars

\* time passes
Tick ==
    /\ now + TickSeconds <= MaxTicks * TickSeconds
    /\ now' = now + TickSeconds
    /\ UNCHANGED <<loadCache, fetchCache, loadLock, fetchLock, pc, raw, syms, idx,
                   prices, outcomes, live, page, hist, fetchAllCount>>
    /\ UNCHANGED pureVars

Next ==
    \/ \E s \in Sessions :
          \/ RunScript(s)
          \/ LoadAcquire(s)
          \/ ReadCsv(s)
          \/ FetchAcquire(s)
          \/ FetchSymbol(s)
          \/ FetchReturn(s)
          \/ FinishLoadData(s)
    \/ Tick

Spec == Init /\ [][Next]_vars

PureNext ==
    \/ PureLoad
    \/ PureRender

PureStart ==
    /\ PureInit
    /\ now = 0
    /\ loadCache = NoEntry
    /\ fetchCache = [k \in Keys |-> NoEntry]
    /\ loadLock = NoOwner
    /\ fetchLock = [k \in Keys |-> NoOwner]
    /\ pc = [s \in Sessions |-> "idle"]
    /\ raw = [s \in Sessions |-> Missing]
    /\ syms = [s \in Sessions |-> <<>>]
    /\ idx = [s \in Sessions |-> 1]
    /\ prices = [s \in Sessions |-> NoMapping]
    /\ outcomes = [s \in Sessions |-> <<>>]
    /\ live = [s \in Sessions |-> NoMapping]
    /\ page = NoPage
    /\ hist = [c \in Fns \X Keys |-> [comp |-> NoCall, cur |-> NoCall]]
    /\ fetchAllCount = [k \in Keys |-> 0]

PureSpec == PureStart /\ [][PureNext]_vars

----------------------------------------------------------------------------
(* Properties of the running app (Spec) *)

H(fn, key) == hist[<<fn, key>>]
InLoadBody(s) == pc[s] \in {"readCsv", "fetchWait", "fetchLoop", "finishLoad"}
InFetchBody(s, key) == pc[s] = "fetchLoop" /\ syms[s] = key
InWindow(entry) == entry.has /\ now < entry.at + 30
Absent(frame) == \E i \in 1..Len(frame.rows) : frame.rows[i].current_price_live = NaN

\* C1: a call of a cached function that returns inside the 30 s window opened
\* by an earlier call with the same symbols returns exactly what that call
\* returned and runs no fetch of its own, absent prices included.
C1_SameWindowSameMapping ==
    \A fn \in Fns, key \in Keys :
        LET h == H(fn, key)
        IN  (h.cur.some /\ h.comp.some /\ h.cur.t < h.comp.win + 30)
            => /\ ~h.cur.computed
               /\ h.cur.val = h.comp.val
               /\ h.cur.fetches = h.comp.fetches

\* a second call inside the window was served a frame with an absent price
C1_Witness ==
    \E key \in Keys :
        LET h == H("load_data", key)
        IN  /\ h.cur.some /\ h.comp.some /\ ~h.cur.computed
            /\ h.cur.t < h.comp.win + 30
            /\ Absent(h.cur.val)
            /\ fetchAllCount[key] = 1

\* C2: a call that returns 30 s or more after the window of the previous
\* fetch opened runs the body again, exactly once, and opens a new window at
\* its own return.
C2_ExpiryRefetches ==
    \A fn \in Fns, key \in Keys :
        LET h == H(fn, key)
        IN  (h.cur.some /\ h.comp.some /\ h.cur.t >= h.comp.win + 30)
            => /\ h.cur.computed
               /\ h.cur.fetches = h.comp.fetches + 1
               /\ h.cur.win = h.cur.t

\* after two fetches, 30 s apart, a third call in the new window fetched nothing
C2_Witness ==
    \E key \in Keys :
        LET h == H("load_data", key)
        IN  /\ h.cur.some /\ h.comp.some /\ ~h.cur.computed
            /\ h.comp.win >= 30
            /\ h.cur.fetches = 2
            /\ fetchAllCount[key] = 2

\* C3: at most one session is inside the body of load_data, at most one
\* inside the body of fetch_live_prices per symbol list, and no body runs
\* while the window of its cache entry is open.
C3_OneFetchInFlight ==
    /\ Cardinality({s \in Sessions : InLoadBody(s)}) <= 1
    /\ \A key \in Keys : Cardinality({s \in Sessions : InFetchBody(s, key)}) <= 1
    /\ \A s \in Sessions : InLoadBody(s) => ~InWindow(loadCache)
    /\ \A s \in Sessions, key \in Keys : InFetchBody(s, key) => ~InWindow(fetchCache[key])

\* one session is fetching while the other waits for the same refresh
C3_Witness ==
    \E s, t \in Sessions : pc[s] = "fetchLoop" /\ idx[s] = 2 /\ pc[t] = "loadWait"

\* C4: fetch_live_prices returns a mapping with an entry for every symbol it
\* was given, the price where the provider returned one and None where the
\* series was empty or the provider raised, whatever happened to the others.
C4_PerSymbolIsolation ==
    \A s \in Sessions :
        /\ pc[s] = "fetchLoop" =>
              /\ Len(outcomes[s]) = idx[s] - 1
              /\ DOMAIN prices[s] = {syms[s][i] : i \in 1..(idx[s] - 1)}
        /\ pc[s] = "finishLoad" =>
              /\ DOMAIN live[s] = SeqRange(syms[s])
              /\ Len(outcomes[s]) = Len(syms[s])
              /\ \A i \in 1..Len(syms[s]) :
                    live[s][syms[s][i]] =
                       IF outcomes[s][i].kind = "price"
                       THEN Num(outcomes[s][i].p) ELSE NoneV

\* the provider raised for the first symbol and returned a price for the second
C4_Witness ==
    \E s \in Sessions :
        /\ pc[s] = "finishLoad"
        /\ Len(syms[s]) = 2
        /\ outcomes[s][1].kind = "exception"
        /\ outcomes[s][2].kind = "price"
        /\ live[s][syms[s][2]] = Num(MaxPrice)

InvalidSource(file) == file.kind # "table" \/ ~(AllCols \subseteq file.cols)

\* C7: a page rendered from a missing or structurally invalid file is the empty
\* page with the diagnostic; nothing raises.
C7_InvalidSourceEmptyPage ==
    (page.session # 0 /\ InvalidSource(page.file))
        => page.out.kind = "empty" /\ page.out.diag

\* fetch_live_prices is only called by load_data, whose entry is stored later and
\* lives as long: its own cache never serves a call
FetchCacheNeverServes ==
    \A key \in Keys : H("fetch_live_prices", key).cur.some
                         => H("fetch_live_prices", key).cur.computed

----------------------------------------------------------------------------
(* Properties of the data pipeline (PureSpec) *)

Loaded == dpc \in {"loaded", "rendered"}
Rendered == dpc = "rendered" /\ dOut.kind = "page"
Quoted(stock) == stock \in DOMAIN dQuotes /\ dQuotes[stock].k = "num"

\* C5: after reconciliation current_price is a number: the quote if there is
\* one, else the file's current_price if it has one, else entry_price; pnl_rs is
\* computed from it.
C5_ThreeTierFallback ==
    Loaded =>
        \A i \in 1..Len(dDf.rows) :
            LET r == dDf.rows[i]
                src == dFile.rows[i]
                want == IF Quoted(src.stock) THEN dQuotes[src.stock].v
                        ELSE IF src.current_price.k = "num" THEN src.current_price.v
                        ELSE src.entry_price
            IN  /\ r.current_price = Num(want)
                /\ r.pnl_rs = Num((want - src.entry_price) * src.quantity)

\* C8: pnl_pct is null for entry_price <= 0 and (current_price - entry_price)
\* / entry_price * 100 for entry_price > 0.
C8_PnlPctNullOrExact ==
    Loaded =>
        \A i \in 1..Len(dDf.rows) :
            LET r == dDf.rows[i]
            IN  /\ r.entry_price <= 0 => r.pnl_pct.k = "nan"
                /\ (r.entry_price > 0 /\ r.current_price.k = "num") =>
                      /\ r.pnl_pct.k = "num"
                      /\ r.pnl_pct.v * r.entry_price
                            = (r.current_price.v - r.entry_price) * 10000

Abs(x) == IF x < 0 THEN -x ELSE x
PositiveEntry(rows) == {i \in 1..Len(rows) : rows[i].entry_price > 0}
RECURSIVE SumOver(_, _)
SumOver(f, S) == IF S = {} THEN 0
                 ELSE LET x == CHOOSE y \in S : TRUE IN f[x] + SumOver(f, S \ {x})

\* C9: the total return is 100 * sum(pnl_rs) / sum(entry_price * |quantity|)
\* over the records with entry_price > 0, and 0 when that cost basis is 0.
C9_TotalReturnAbsQuantity ==
    Rendered =>
        LET rows == dDf.rows
            P == PositiveEntry(rows)
            pnl == SumOver([i \in 1..Len(rows) |->
                               IF rows[i].pnl_rs.k = "num" THEN rows[i].pnl_rs.v ELSE 0], P)
            cost == SumOver([i \in 1..Len(rows) |->
                                rows[i].entry_price * Abs(rows[i].quantity)], P)
            got == dOut.total_pnl_pct
        IN  IF cost = 0 THEN got[1] = 0
            ELSE got[1] * cost = 100 * pnl * got[2]

\* C10: a record is near its stop-loss iff it is HOLD and current_price <=
\* stop_loss * 1.02, near its target iff it is HOLD and current_price >=
\* target_price * 0.98; a record may be both.
C10_RiskClasses ==
    Rendered =>
        \A i \in 1..Len(dDf.rows) :
            LET r == dDf.rows[i]
                priced == r.current_price.k = "num"
            IN  /\ i \in dOut.near_sl <=>
                      (r.status = "HOLD" /\ priced
                       /\ 100 * r.current_price.v <= 102 * r.stop_loss)
                /\ i \in dOut.at_target <=>
                      (r.status = "HOLD" /\ priced
                       /\ 100 * r.current_price.v >= 98 * r.target_price)

\* a HOLD record just inside the stop-loss band (stop-loss 100, price 101.5, in
\* half units) that is near its target too
C10_Witness ==
    /\ Rendered
    /\ \E i \in 1..Len(dDf.rows) :
          /\ dDf.rows[i].stop_loss = RiskBase
          /\ dDf.rows[i].current_price = Num(RiskBase + 3)
          /\ i \in dOut.near_sl
          /\ i \in dOut.at_target

====
